---- MODULE Spec2Model ----
(***************************************************************************)
(* The interview session of the AI interview assistant: the redux          *)
(* candidates slice (candidatesSlice.js), the InterviewChat component      *)
(* (its local state, refs, effects, timer and handlers) and the            *)
(* PerplexityAPI adapter it calls.                                         *)
(*                                                                         *)
(* One step of the model is one task of the browser's event loop: a UI     *)
(* event, a timer callback or the continuation of a network call, together *)
(* with the render it causes and the effects React runs after that render. *)
(* All state updates made in one task are rendered together.               *)
(***************************************************************************)
EXTENDS Integers, Sequences, FiniteSets, TLC

\* JavaScript null / undefined, where a string or an id is expected.
Null == "null"
\* A null score (scores are numbers from 0 up).
NoScore == 0 - 1

\* ----------------------------------------------------------------- bounds
\* UI events (typing, clicks on Submit / Pause / Restart) in one run.
MaxUserEvents == 2
\* Answers a session may accumulate (the code itself sets no limit).
MaxAnswers == 7
\* Network calls of one kind that may be outstanding together.
MaxInFlight == 2

\* ------------------------------------------------------------ environment
CandidateIds == {"c1"}

\* The credential classes the two key checks of PerplexityAPI tell apart:
\* "none" fails both, "weak" passes checkApiKey only (prefix pplx-, but
\* shorter than 30 characters), "valid" passes both.
KeyKinds == {"none", "weak", "valid"}

\* Texts the candidate may type into the answer box.
TypedTexts == {"a closure"}
NoAnswerText == "No answer provided (time ran out)"

\* Scores a provider writes in an evaluation reply ("Score: n"). 0 is the
\* reply for which the final score of a Completed session is falsy.
ReplyScores == {0}

\* What the three generateQuestions calls of one batch yield when the
\* connection test succeeded: per difficulty, the number of questions parsed
\* from the reply (after slice(0, count)).
BatchCounts == {<<2, 2, 2>>, <<1, 2, 2>>}

Min(a, b) == IF a < b THEN a ELSE b
Max(a, b) == IF a > b THEN a ELSE b

\* ------------------------------------------------------------- questions
getTimeLimit(index) ==
    IF index < 2 THEN 20 ELSE IF index < 4 THEN 60 ELSE 120

getDifficulty(index) ==
    IF index < 2 THEN "Easy" ELSE IF index < 4 THEN "Medium" ELSE "Hard"

defaultQuestions ==
    << [question |-> "bank-1", difficulty |-> "Easy",   timeLimit |-> 20],
       [question |-> "bank-2", difficulty |-> "Easy",   timeLimit |-> 20],
       [question |-> "bank-3", difficulty |-> "Medium", timeLimit |-> 60],
       [question |-> "bank-4", difficulty |-> "Medium", timeLimit |-> 60],
       [question |-> "bank-5", difficulty |-> "Hard",   timeLimit |-> 120],
       [question |-> "bank-6", difficulty |-> "Hard",   timeLimit |-> 120] >>

\* PerplexityAPI.generateQuestions(position, difficulty, count) when a model
\* answers with n usable lines: questions.slice(0, count).
generateQuestions(difficulty, count, n) ==
    [i \in 1..Min(n, count) |->
        [question |-> "ai-" \o difficulty,
         difficulty |-> difficulty,
         timeLimit |-> IF difficulty = "easy" THEN 20
                       ELSE IF difficulty = "medium" THEN 60 ELSE 120]]

\* generateQuestionsBatch without its fallback to the default questions.
BatchResultWithoutFallback(allQuestions) ==
    [i \in 1..Len(allQuestions) |->
        [id |-> <<"generated", i - 1>>,
         question |-> allQuestions[i].question,
         difficulty |-> allQuestions[i].difficulty,
         timeLimit |-> allQuestions[i].timeLimit]]

\* The value generateQuestionsBatch resolves to. allQuestions is what the
\* provider calls produced (<<>> when the key is unavailable, the connection
\* test failed or a call was rejected).
BatchResult(allQuestions) ==
    IF Len(allQuestions) = 0
    THEN [i \in 1..Len(defaultQuestions) |->
            [id |-> <<"default", i - 1>>,
             question |-> defaultQuestions[i].question,
             difficulty |-> defaultQuestions[i].difficulty,
             timeLimit |-> IF defaultQuestions[i].timeLimit # 0
                           THEN defaultQuestions[i].timeLimit
                           ELSE getTimeLimit(i - 1)]]
    ELSE [i \in 1..Len(allQuestions) |->
            [id |-> <<"generated", i - 1>>,
             question |-> allQuestions[i].question,
             difficulty |-> IF allQuestions[i].difficulty # ""
                            THEN allQuestions[i].difficulty
                            ELSE getDifficulty(i - 1),
             timeLimit |-> IF allQuestions[i].timeLimit # 0
                           THEN allQuestions[i].timeLimit
                           ELSE getTimeLimit(i - 1)]]

ProviderBatch(counts) ==
    generateQuestions("easy", 2, counts[1])
        \o generateQuestions("medium", 2, counts[2])
        \o generateQuestions("hard", 2, counts[3])

\* ---------------------------------------------------------- PerplexityAPI
\* isApiKeyAvailable letting every key through.
isApiKeyAvailableUnchecked(key) == key \in KeyKinds

isApiKeyAvailable(key) == key = "valid"
checkApiKey(key) == key \in {"weak", "valid"}

TextLength(t) ==
    CASE t = NoAnswerText -> 33
      [] t = "a closure" -> 9
      [] OTHER -> 0

\* Number of the listed technical keywords occurring in the lower-cased text.
KeywordsFound(t) ==
    CASE t = "a closure" -> 1
      [] OTHER -> 0

\* The basic evaluation with a point for every keyword found.
HeuristicScoreUncapped(len, found) ==
    Min(10, 3 + (IF len > 50 THEN 1 ELSE 0) + (IF len > 100 THEN 1 ELSE 0)
              + found)

HeuristicScore(len, found) ==
    Min(10, 3 + (IF len > 50 THEN 1 ELSE 0) + (IF len > 100 THEN 1 ELSE 0)
              + Min(found, 3))

\* PerplexityAPI.evaluateAnswer for one answer text. up: the provider answers
\* the first model's request with "Score: raw"; otherwise every model fails.
evaluateAnswer(key, up, raw, text) ==
    IF ~checkApiKey(key)
    THEN [score |-> 5, feedback |-> "missing-key"]
    ELSE IF up
    THEN [score |-> Max(0, Min(10, raw)), feedback |-> "ai"]
    ELSE [score |-> HeuristicScore(TextLength(text), KeywordsFound(text)),
          feedback |-> "basic"]

ScoreOrZero(a) == IF a.score = NoScore THEN 0 ELSE a.score

RECURSIVE SumScores(_)
SumScores(answers) ==
    IF Len(answers) = 0 THEN 0
    ELSE ScoreOrZero(answers[1]) + SumScores(Tail(answers))

\* The final score as the average over the answers given.
FinalScoreOverAnswers(answers) ==
    Max(0, Min(100, (10 * SumScores(answers) + (Max(1, Len(answers)) \div 2))
                        \div Max(1, Len(answers))))

\* Math.max(0, Math.min(100, Math.round(total / 6 * 10)))
FinalScore(answers) ==
    Max(0, Min(100, (10 * SumScores(answers) + 3) \div 6))

\* generateSummary whose bands start above 7 and above 5.
generateSummaryStrictBands(key, up, cand) ==
    IF ~checkApiKey(key) THEN "missing-key-summary"
    ELSE IF up THEN "ai-summary"
    ELSE LET n == Len(cand.answers)
             tot == SumScores(cand.answers)
         IN IF n > 0 /\ tot > 7 * n THEN "template-strong"
            ELSE IF n > 0 /\ tot > 5 * n THEN "template-moderate"
            ELSE "template-below"

\* PerplexityAPI.generateSummary: the kind of text it returns.
generateSummary(key, up, cand) ==
    IF ~checkApiKey(key) THEN "missing-key-summary"
    ELSE IF up THEN "ai-summary"
    ELSE LET n == Len(cand.answers)
             tot == SumScores(cand.answers)
         IN IF n > 0 /\ tot >= 7 * n THEN "template-strong"
            ELSE IF n > 0 /\ tot >= 5 * n THEN "template-moderate"
            ELSE "template-below"

\* ------------------------------------------------------- candidatesSlice
NewCandidate(id) ==
    [id |-> id,
     interviewStatus |-> "not_started",
     answers |-> <<>>,
     questions |-> <<>>,
     currentQuestionIndex |-> 0,
     timeLeft |-> 0,
     isPaused |-> FALSE,
     score |-> NoScore,
     summary |-> "",
     completedAt |-> Null]

\* { ...current, ...incoming } with the listed fields taken from incoming
\* whenever incoming defines them.
MergeCandidate(current, incoming) ==
    [f \in DOMAIN current |->
        IF f \in DOMAIN incoming THEN incoming[f] ELSE current[f]]

updateCandidate(cands, incoming) ==
    IF incoming.id \notin DOMAIN cands THEN cands
    ELSE [cands EXCEPT ![incoming.id] = MergeCandidate(@, incoming)]

\* resetInterview leaving the score and the summary of the session alone.
resetInterviewKeepingResult(cands, id) ==
    IF id \notin DOMAIN cands THEN cands
    ELSE [cands EXCEPT ![id] =
            [@ EXCEPT !.interviewStatus = "not_started",
                      !.answers = <<>>,
                      !.questions = <<>>,
                      !.timeLeft = 0,
                      !.isPaused = FALSE,
                      !.currentQuestionIndex = 0,
                      !.completedAt = Null]]

resetInterview(cands, id) ==
    IF id \notin DOMAIN cands THEN cands
    ELSE [cands EXCEPT ![id] =
            [@ EXCEPT !.interviewStatus = "not_started",
                      !.answers = <<>>,
                      !.questions = <<>>,
                      !.score = NoScore,
                      !.summary = "",
                      !.timeLeft = 0,
                      !.isPaused = FALSE,
                      !.currentQuestionIndex = 0,
                      !.completedAt = Null]]

\* ------------------------------------------------------------------ state
VARIABLES
    candidates,          \* store: the candidates of the slice, by id
    currentCandidateId,  \* store: the selected candidate, or Null
    chat,                \* InterviewChat: local state, refs, timer, closures
    calls,               \* network calls in flight, with their continuations
    hist,                \* history of the run (for stating properties)
    provider,            \* the credential and the provider's behaviour
    probe                \* one PerplexityAPI operation, attempt by attempt

vars == <<candidates, currentCandidateId, chat, calls, hist, provider, probe>>

\* The state the operators below transform. dirty: the selected candidate's
\* object was replaced in the store since the last render.
World ==
    [candidates |-> candidates, currentCandidateId |-> currentCandidateId,
     chat |-> chat, calls |-> calls, hist |-> hist, dirty |-> FALSE]

\* candidates.find(c => c.id === currentCandidateId); NoCandidate: undefined.
NoCandidate == [id |-> Null]
NoClosure == [cand |-> NoCandidate, answer |-> ""]

InitialChat ==
    [mounted |-> FALSE,
     timeLeft |-> 0,
     answer |-> "",
     isPaused |-> FALSE,
     loading |-> TRUE,
     hasGeneratedQuestions |-> FALSE,
     hasFinishedInterview |-> FALSE,
     generationTimeout |-> FALSE,  \* generationTimeoutRef holds a live timeout
     timerOn |-> FALSE,            \* timerRef holds a live interval
     timerClosure |-> NoClosure,       \* the submitAnswer the interval would call
     initCleanup |-> FALSE,        \* the init effect last returned its cleanup
     autoSubmits |-> <<>>]         \* setTimeout(submitAnswer, 100) not yet run

ActiveCandidate(w) ==
    IF w.currentCandidateId \in DOMAIN w.candidates
    THEN w.candidates[w.currentCandidateId] ELSE NoCandidate

\* activeCandidate?.currentQuestionIndex || 0
CurrentIndex(ac) == IF ac.id = Null THEN 0 ELSE ac.currentQuestionIndex

HasQuestion(ac, index) ==
    ac.id # Null /\ index >= 0 /\ index < Len(ac.questions)

TimeLimitOf(ac, index) ==
    IF ac.questions[index + 1].timeLimit # 0
    THEN ac.questions[index + 1].timeLimit ELSE getTimeLimit(index)

\* dispatch(updateCandidate(payload))
Dispatch(w, payload) ==
    [w EXCEPT !.candidates = updateCandidate(@, payload),
              !.dirty = @ \/ (payload.id = w.currentCandidateId
                              /\ payload.id \in DOMAIN w.candidates)]

\* A state setter of the component: without effect once it is unmounted.
SetLoading(w, v) == IF w.chat.mounted THEN [w EXCEPT !.chat.loading = v] ELSE w
SetTimeLeft(w, v) == IF w.chat.mounted THEN [w EXCEPT !.chat.timeLeft = v] ELSE w
SetAnswer(w, v) == IF w.chat.mounted THEN [w EXCEPT !.chat.answer = v] ELSE w
SetIsPaused(w, v) == IF w.chat.mounted THEN [w EXCEPT !.chat.isPaused = v] ELSE w

RemoveAt(seq, i) == SubSeq(seq, 1, i - 1) \o SubSeq(seq, i + 1, Len(seq))

\* --------------------------------------------------- InterviewChat: calls
\* submitAnswer up to its await. cl is the closure the function was created
\* in: the activeCandidate and the answer text of that render.
\* via and box only record who called it and what the answer box held.
submitAnswer(w, cl, via, box) ==
    LET ac == cl.cand
        index == CurrentIndex(ac)
    IN IF index >= 6 THEN w
       ELSE IF ac.id = Null \/ Len(ac.questions) = 0 THEN w
       ELSE IF ~HasQuestion(ac, index) THEN w
       ELSE [SetLoading(w, TRUE) EXCEPT
                !.calls.evals = Append(@,
                    [cand |-> ac,
                     text |-> IF cl.answer # "" THEN cl.answer ELSE NoAnswerText,
                     via |-> via, box |-> box])]

\* submitAnswer losing the submission when the evaluation failed: the call
\* ends, the spinner is released, nothing is recorded.
submitAnswerThenLosingFailure(w, i) ==
    SetLoading([w EXCEPT !.calls.evals = RemoveAt(@, i)], FALSE)

\* submitAnswer after PerplexityAPI.evaluateAnswer returned.
submitAnswerThen(w, i) ==
    LET call == w.calls.evals[i]
        ac == call.cand
        index == CurrentIndex(ac)
        evaluation == evaluateAnswer(provider.key, provider.up, provider.raw, call.text)
        updatedAnswers ==
            Append(ac.answers,
                   [questionId |-> ac.questions[index + 1].id,
                    text |-> call.text,
                    score |-> evaluation.score,
                    feedback |-> evaluation.feedback])
        nextIndex == index + 1
        hasNext == HasQuestion(ac, nextIndex)
        nextTimeLeft == IF hasNext THEN TimeLimitOf(ac, nextIndex) ELSE 0
        updatedCandidate ==
            [ac EXCEPT !.answers = updatedAnswers,
                       !.currentQuestionIndex = nextIndex,
                       !.timeLeft = nextTimeLeft,
                       !.isPaused = FALSE]
        w1 == Dispatch([w EXCEPT !.calls.evals = RemoveAt(@, i)], updatedCandidate)
        w2 == SetAnswer(w1, "")
        w3 == IF hasNext THEN SetTimeLeft(w2, nextTimeLeft) ELSE w2
        w4 == SetLoading(w3, FALSE)
    IN w4

\* finishInterview up to its await.
finishInterview(w, ac) ==
    IF ac.id = Null THEN w
    ELSE [SetLoading(w, TRUE) EXCEPT
            !.calls.fins = Append(@, [cand |-> ac,
                                      averageScore |-> FinalScore(ac.answers)]),
            !.hist.finStarts = @ + 1]

\* finishInterview writing the score and the summary but not the status.
finishInterviewThenKeepingStatus(w, i) ==
    LET call == w.calls.fins[i]
        updatedCandidate ==
            [call.cand EXCEPT
                !.score = call.averageScore,
                !.summary = generateSummary(provider.key, provider.up, call.cand),
                !.completedAt = "set"]
        w1 == Dispatch([w EXCEPT !.calls.fins = RemoveAt(@, i)], updatedCandidate)
        w2 == SetLoading(w1, FALSE)
    IN [w2 EXCEPT !.chat.hasFinishedInterview = FALSE,
                  !.hist.scoreWrites = @ + 1]

\* finishInterview after PerplexityAPI.generateSummary returned, and the
\* .then of the init effect that releases hasFinishedInterview.
finishInterviewThen(w, i) ==
    LET call == w.calls.fins[i]
        updatedCandidate ==
            [call.cand EXCEPT
                !.interviewStatus = "completed",
                !.score = call.averageScore,
                !.summary = generateSummary(provider.key, provider.up, call.cand),
                !.completedAt = "set"]
        w1 == Dispatch([w EXCEPT !.calls.fins = RemoveAt(@, i)], updatedCandidate)
        w2 == SetLoading(w1, FALSE)
    IN [w2 EXCEPT !.chat.hasFinishedInterview = FALSE,
                  !.hist.scoreWrites = @ + 1]

\* The generation branch of the init effect: guard flag, 35 s timeout,
\* generateQuestionsBatch().
startGeneration(w, ac) ==
    [SetLoading(w, TRUE) EXCEPT
        !.chat.hasGeneratedQuestions = TRUE,
        !.chat.generationTimeout = TRUE,
        !.calls.gens = Append(@, [cand |-> ac])]

\* The .then of generateQuestionsBatch() in the init effect.
generationThen(w, i, batch) ==
    LET ac == w.calls.gens[i].cand
        w0 == [w EXCEPT !.calls.gens = RemoveAt(@, i),
                        !.chat.generationTimeout = FALSE,
                        !.chat.hasGeneratedQuestions = FALSE]
    IN IF Len(batch) = 0 THEN SetLoading(w0, FALSE)
       ELSE LET firstQuestionTimeLimit ==
                    IF batch[1].timeLimit # 0 THEN batch[1].timeLimit
                    ELSE getTimeLimit(0)
                updatedCandidate ==
                    [ac EXCEPT !.questions = batch,
                               !.interviewStatus = "in_progress",
                               !.currentQuestionIndex = 0,
                               !.timeLeft = firstQuestionTimeLimit,
                               !.isPaused = FALSE]
            IN SetLoading(SetTimeLeft(Dispatch(w0, updatedCandidate),
                                      firstQuestionTimeLimit), FALSE)

togglePause(w) ==
    LET newPausedState == ~w.chat.isPaused
        updatedCandidate ==
            [ActiveCandidate(w) EXCEPT !.isPaused = newPausedState,
                                       !.timeLeft = w.chat.timeLeft]
    IN Dispatch(SetIsPaused(w, newPausedState), updatedCandidate)

\* ------------------------------------------------- InterviewChat: effects
\* An effect reads the values of the render it belongs to (r) and the refs
\* as they are now (w); it returns w with its own updates applied.

\* The init effect without its early return for a Completed session.
InitEffectWithoutCompletedReturn(r, w) ==
    LET ac == ActiveCandidate(r)
        index == CurrentIndex(ac)
        w0 == [w EXCEPT !.chat.generationTimeout = FALSE,
                        !.chat.initCleanup = FALSE]
        kept == [w0 EXCEPT !.chat.initCleanup = TRUE]
    IN IF ac.id = Null THEN SetLoading(w0, FALSE)
       ELSE IF index < 6 THEN
            IF Len(ac.questions) = 0 THEN
                IF ~w0.chat.hasGeneratedQuestions
                THEN startGeneration(kept, ac)
                ELSE kept
            ELSE IF index >= Len(ac.questions) THEN
                LET safeIndex == Max(0, Len(ac.questions) - 1)
                    newTimeLeft == IF ac.timeLeft # 0 THEN ac.timeLeft
                                   ELSE ac.questions[safeIndex + 1].timeLimit
                    w1 == IF ac.currentQuestionIndex # safeIndex
                             \/ ac.timeLeft # newTimeLeft
                          THEN Dispatch(w0,
                                 [ac EXCEPT !.currentQuestionIndex = safeIndex,
                                            !.timeLeft = newTimeLeft])
                          ELSE w0
                IN SetTimeLeft(w1, newTimeLeft)
            ELSE
                LET newTimeLeft == IF ac.timeLeft # 0 THEN ac.timeLeft
                                   ELSE ac.questions[index + 1].timeLimit
                    w1 == IF r.chat.timeLeft # newTimeLeft
                          THEN SetTimeLeft(kept, newTimeLeft) ELSE kept
                IN SetLoading(w1, FALSE)
       ELSE IF Len(ac.questions) > 0 /\ (ac.score = NoScore \/ ac.score = 0) THEN
            IF ~w0.chat.hasFinishedInterview
            THEN finishInterview(
                    [kept EXCEPT !.chat.hasFinishedInterview = TRUE], ac)
            ELSE kept
       ELSE SetLoading(kept, FALSE)

\* The initialisation effect leaving an index out of range as it is.
InitEffectWithoutIndexGuard(r, w) ==
    LET ac == ActiveCandidate(r)
        index == CurrentIndex(ac)
        w0 == [w EXCEPT !.chat.generationTimeout = FALSE,
                        !.chat.initCleanup = FALSE]
        kept == [w0 EXCEPT !.chat.initCleanup = TRUE]
    IN IF ac.id = Null THEN SetLoading(w0, FALSE)
       ELSE IF ac.interviewStatus = "completed" THEN w0
       ELSE IF index < 6 THEN
            IF Len(ac.questions) = 0 THEN
                IF ~w0.chat.hasGeneratedQuestions
                THEN startGeneration(kept, ac)
                ELSE kept
            ELSE IF index >= Len(ac.questions) THEN w0
            ELSE
                LET newTimeLeft == IF ac.timeLeft # 0 THEN ac.timeLeft
                                   ELSE ac.questions[index + 1].timeLimit
                    w1 == IF r.chat.timeLeft # newTimeLeft
                          THEN SetTimeLeft(kept, newTimeLeft) ELSE kept
                IN SetLoading(w1, FALSE)
       ELSE IF Len(ac.questions) > 0 /\ (ac.score = NoScore \/ ac.score = 0) THEN
            IF ~w0.chat.hasFinishedInterview
            THEN finishInterview(
                    [kept EXCEPT !.chat.hasFinishedInterview = TRUE], ac)
            ELSE kept
       ELSE SetLoading(kept, FALSE)

\* The "initialize or continue the interview" effect,
\* deps [activeCandidate, dispatch, generateQuestionsBatch, finishInterview].
InitEffect(r, w) ==
    LET ac == ActiveCandidate(r)
        index == CurrentIndex(ac)
        w0 == [w EXCEPT !.chat.generationTimeout = FALSE,
                        !.chat.initCleanup = FALSE]
        kept == [w0 EXCEPT !.chat.initCleanup = TRUE]
    IN IF ac.id = Null THEN SetLoading(w0, FALSE)
       ELSE IF ac.interviewStatus = "completed" THEN w0
       ELSE IF index < 6 THEN
            IF Len(ac.questions) = 0 THEN
                IF ~w0.chat.hasGeneratedQuestions
                THEN startGeneration(kept, ac)
                ELSE kept
            ELSE IF index >= Len(ac.questions) THEN
                LET safeIndex == Max(0, Len(ac.questions) - 1)
                    newTimeLeft == IF ac.timeLeft # 0 THEN ac.timeLeft
                                   ELSE ac.questions[safeIndex + 1].timeLimit
                    w1 == IF ac.currentQuestionIndex # safeIndex
                             \/ ac.timeLeft # newTimeLeft
                          THEN Dispatch(w0,
                                 [ac EXCEPT !.currentQuestionIndex = safeIndex,
                                            !.timeLeft = newTimeLeft])
                          ELSE w0
                IN SetTimeLeft(w1, newTimeLeft)
            ELSE
                LET newTimeLeft == IF ac.timeLeft # 0 THEN ac.timeLeft
                                   ELSE ac.questions[index + 1].timeLimit
                    w1 == IF r.chat.timeLeft # newTimeLeft
                          THEN SetTimeLeft(kept, newTimeLeft) ELSE kept
                IN SetLoading(w1, FALSE)
       ELSE IF Len(ac.questions) > 0 /\ (ac.score = NoScore \/ ac.score = 0) THEN
            IF ~w0.chat.hasFinishedInterview
            THEN finishInterview(
                    [kept EXCEPT !.chat.hasFinishedInterview = TRUE], ac)
            ELSE kept
       ELSE SetLoading(kept, FALSE)

\* The cleanup the init effect returns.
InitCleanup(w) ==
    [w EXCEPT !.chat.timerOn = FALSE, !.chat.timerClosure = NoClosure,
              !.chat.generationTimeout = FALSE]

\* The cleanup of the timer effect, and the clearing at its top.
TimerCleanup(w) ==
    [w EXCEPT !.chat.timerOn = FALSE, !.chat.timerClosure = NoClosure]

\* The timer effect starting the interval although the session is paused.
TimerEffectIgnoringPause(r, w) ==
    LET ac == ActiveCandidate(r)
        index == CurrentIndex(ac)
        w0 == TimerCleanup(w)
    IN IF ac.id = Null THEN w0
       ELSE IF ac.interviewStatus = "completed" \/ index >= 6 THEN w0
       ELSE IF ~HasQuestion(ac, index) THEN w0
       ELSE LET w1 == IF r.chat.timeLeft <= 0
                      THEN SetTimeLeft(w0, TimeLimitOf(ac, index)) ELSE w0
            IN [w1 EXCEPT !.chat.timerOn = TRUE,
                          !.chat.timerClosure =
                              [cand |-> ac, answer |-> r.chat.answer]]

\* The timer effect starting the interval although the session has no
\* question at its index.
TimerEffectWithoutQuestion(r, w) ==
    LET ac == ActiveCandidate(r)
        index == CurrentIndex(ac)
        w0 == TimerCleanup(w)
    IN IF ac.id = Null \/ r.chat.isPaused THEN w0
       ELSE IF ac.interviewStatus = "completed" \/ index >= 6 THEN w0
       ELSE LET limit == IF HasQuestion(ac, index)
                         THEN TimeLimitOf(ac, index) ELSE getTimeLimit(index)
                w1 == IF r.chat.timeLeft <= 0
                      THEN SetTimeLeft(w0, limit) ELSE w0
            IN [w1 EXCEPT !.chat.timerOn = TRUE,
                          !.chat.timerClosure =
                              [cand |-> ac, answer |-> r.chat.answer]]

\* The "combined timer" effect, deps [currentQuestionIndex, isPaused]. The
\* interval it starts calls the submitAnswer of the render r.
TimerEffect(r, w) ==
    LET ac == ActiveCandidate(r)
        index == CurrentIndex(ac)
        w0 == TimerCleanup(w)
    IN IF ac.id = Null \/ r.chat.isPaused THEN w0
       ELSE IF ac.interviewStatus = "completed" \/ index >= 6 THEN w0
       ELSE IF ~HasQuestion(ac, index) THEN w0
       ELSE LET w1 == IF r.chat.timeLeft <= 0
                      THEN SetTimeLeft(w0, TimeLimitOf(ac, index)) ELSE w0
            IN [w1 EXCEPT !.chat.timerOn = TRUE,
                          !.chat.timerClosure =
                              [cand |-> ac, answer |-> r.chat.answer]]

\* The "reset flags when candidate changes" effect, deps [currentCandidateId].
ResetFlagsEffect(w) ==
    [w EXCEPT !.chat.hasGeneratedQuestions = FALSE,
              !.chat.hasFinishedInterview = FALSE,
              !.chat.generationTimeout = FALSE]

\* One commit: prev is the previous render (unmounted at the first one), w the
\* state being rendered. Cleanups of the effects whose deps changed run first,
\* then these effects in the order the component declares them.
RunEffects(prev, w) ==
    LET first == ~prev.chat.mounted
        r == [w EXCEPT !.dirty = FALSE]
        initRuns == first \/ w.dirty
                          \/ w.currentCandidateId # prev.currentCandidateId
        timerRuns == first
                     \/ CurrentIndex(ActiveCandidate(w))
                            # CurrentIndex(ActiveCandidate(prev))
                     \/ w.chat.isPaused # prev.chat.isPaused
        flagsRun == first \/ w.currentCandidateId # prev.currentCandidateId
        c1 == IF initRuns /\ r.chat.initCleanup THEN InitCleanup(r) ELSE r
        c2 == IF timerRuns THEN TimerCleanup(c1) ELSE c1
        e1 == IF initRuns THEN InitEffect(r, c2) ELSE c2
        e2 == IF timerRuns THEN TimerEffect(r, e1) ELSE e1
    IN IF flagsRun THEN ResetFlagsEffect(e2) ELSE e2

\* A call that resolves without leaving the task that started it: the key
\* check fails before any request is made.
HasImmediate(w) ==
    \/ Len(w.calls.gens) > 0 /\ ~isApiKeyAvailable(provider.key)
    \/ Len(w.calls.evals) > 0 /\ ~checkApiKey(provider.key)
    \/ Len(w.calls.fins) > 0 /\ ~checkApiKey(provider.key)

ResolveImmediate(w) ==
    IF Len(w.calls.gens) > 0 /\ ~isApiKeyAvailable(provider.key)
    THEN generationThen(w, 1, BatchResult(<<>>))
    ELSE IF Len(w.calls.evals) > 0 /\ ~checkApiKey(provider.key)
    THEN submitAnswerThen(w, 1)
    ELSE finishInterviewThen(w, 1)

\* Everything that follows the updates of one task: render and effects until
\* no effect has anything left to do, and the continuations that need no
\* network.
RECURSIVE Settle(_, _)
Settle(prev, w) ==
    LET e == IF w.chat.mounted THEN RunEffects(prev, w)
             ELSE [w EXCEPT !.dirty = FALSE]
        rerender ==
            /\ w.chat.mounted
            /\ \/ e.dirty
               \/ CurrentIndex(ActiveCandidate(e)) # CurrentIndex(ActiveCandidate(w))
               \/ e.chat.isPaused # w.chat.isPaused
               \/ e.currentCandidateId # w.currentCandidateId
    IN IF rerender THEN Settle(w, e)
       ELSE IF HasImmediate(e) THEN Settle(e, ResolveImmediate(e))
       ELSE e

\* ------------------------------------------- PerplexityAPI: the model loop
\* One operation of the adapter followed request by request, with the
\* continuation of its caller: submitAnswer recording the evaluation,
\* finishInterview completing the session, generateQuestionsBatch building
\* the question list.
Models ==
    << "llama-3.1-sonar-small-128k-online",
       "llama-3.1-sonar-large-128k-online",
       "sonar-small-online",
       "sonar-medium-online",
       "sonar" >>

\* Keywords of the technicalKeywords list an answer may contain.
ListedKeywords == {"api", "database", "closure", "state"}

RECURSIVE KeywordChars(_)
KeywordChars(kw) ==
    IF kw = {} THEN 0
    ELSE LET k == CHOOSE x \in kw : TRUE
         IN Len(k) + KeywordChars(kw \ {k})

\* An answer text, as far as evaluateAnswer's heuristic looks at it: its
\* length and the listed keywords occurring in its lower-cased form.
AnswerLengths == {9, 33, 50, 51, 100, 101, 120}

ProbeAnswers ==
    {a \in [len : AnswerLengths, kw : SUBSET ListedKeywords] :
        KeywordChars(a.kw) <= a.len}

NoAnswer == [len |-> 0, kw |-> {}]

\* The number after "score" in the content of an evaluation reply; NoScore
\* when /score[:\s]*(\d+(?:\.\d+)?)/i finds nothing (an empty reply, prose).
ReplyNumbers == {NoScore, 0, 7, 10, 15}

\* The content of a summary reply, trimmed.
SummaryContents ==
    {"", "A solid candidate.",
     "The candidate answered every question with clear, correct reasoning."}

\* Usable lines in the content of a generation reply.
ReplyLineCounts == {0, 1, 2, 3}

\* The score lists of the sessions finishInterview is called for.
ProbeScores == {NoScore, 0, 3, 5, 10}

ProbeScoreLists ==
    {<<8, 6, 7, 5, 9, 4>>, <<10, NoScore, 3>>, <<7, 7, 7, 7, 7, 6>>,
     <<7, 7, 7, 7, 7, 7>>, <<10, NoScore, 10, 10>>}
        \cup {[i \in 1..n |-> s] : n \in 0..MaxAnswers, s \in ProbeScores}

AnswersWithScores(list) == [i \in 1..Len(list) |-> [score |-> list[i]]]

\* What a request to one model comes to: the call throws (network error,
\* non-2xx status, a body without message.content), the response has no
\* choices, or it carries a content. none stands for the absent content.
RequestOutcomes(contents, none) ==
    {[kind |-> k, content |-> none] : k \in {"error", "nochoices"}}
        \cup {[kind |-> "reply", content |-> c] : c \in contents}

NoProbe ==
    [op |-> "none", stage |-> "idle", key |-> "none", id |-> Null,
     adapter |-> "PerplexityAPI",
     answer |-> NoAnswer, answers |-> <<>>, call |-> 0,
     log |-> <<>>, last |-> "none", reply |-> NoScore, source |-> "none",
     score |-> NoScore, feedback |-> "", allQuestions |-> <<>>,
     questions |-> <<>>, averageScore |-> NoScore, finalScore |-> NoScore,
     summary |-> "", interviewStatus |-> "in_progress"]

\* The loop sending its request to the model it has just tried.
RequestSameAgain(p) ==
    [p EXCEPT !.stage = "loop",
              !.log = Append(@, Models[Max(1, Len(@))])]

\* The loop sends its request to the next model of the list.
RequestNext(p) ==
    [p EXCEPT !.stage = "loop", !.log = Append(@, Models[Len(@) + 1])]

\* The score of a reply taken as the provider wrote it.
ParsedScoreUnclamped(number) ==
    IF number # NoScore THEN number ELSE 5

\* scoreMatch ? Math.max(0, Math.min(10, parseFloat(scoreMatch[1]))) : 5
ParsedScore(number) ==
    IF number # NoScore THEN Max(0, Min(10, number)) ELSE 5

\* submitAnswer's continuation: the evaluation goes into the new answer.
RecordEvaluation(p, evaluation, source) ==
    [p EXCEPT !.stage = "done", !.source = source,
              !.score = evaluation.score, !.feedback = evaluation.feedback]

\* evaluateAnswer up to its first request.
evaluateAnswerStart(p) ==
    IF ~checkApiKey(p.key)
    THEN RecordEvaluation(p, [score |-> 5, feedback |-> "missing-key"],
                          "missing-key")
    ELSE RequestNext(p)

\* evaluateAnswer from the return of a request on.
evaluateAnswerAttempt(p, o) ==
    IF o.kind = "reply"
    THEN RecordEvaluation([p EXCEPT !.last = "ok", !.reply = o.content],
                          [score |-> ParsedScore(o.content), feedback |-> "ai"],
                          "model")
    ELSE IF Len(p.log) < Len(Models)
    THEN RequestNext([p EXCEPT !.last = "failed"])
    ELSE RecordEvaluation([p EXCEPT !.last = "failed"],
                          [score |-> HeuristicScore(p.answer.len,
                                                    Cardinality(p.answer.kw)),
                           feedback |-> "basic"],
                          "fallback")

\* Any content of a summary reply taken as the summary.
SummaryAcceptedUnchecked(content) == content \in SummaryContents

\* content && content.length > 50
SummaryAccepted(content) == content # "" /\ Len(content) > 50

\* finishInterview's continuation: the session is completed with the score
\* computed before the call and the summary generateSummary returned.
CompleteInterview(p, summary, source) ==
    [p EXCEPT !.stage = "done", !.source = source,
              !.interviewStatus = "completed",
              !.finalScore = p.averageScore,
              !.summary = summary]

\* finishInterview up to the first request of generateSummary.
finishInterviewStart(p) ==
    LET p1 == [p EXCEPT !.averageScore = FinalScore(p.answers)]
    IN IF ~checkApiKey(p1.key)
       THEN CompleteInterview(p1, generateSummary(p1.key, FALSE, p1),
                              "missing-key")
       ELSE RequestNext(p1)

\* generateSummary from the return of a request on.
generateSummaryAttempt(p, o) ==
    IF o.kind = "reply" /\ SummaryAccepted(o.content)
    THEN CompleteInterview([p EXCEPT !.last = "ok", !.reply = Len(o.content)],
                           o.content, "model")
    ELSE IF Len(p.log) < Len(Models)
    THEN RequestNext([p EXCEPT !.last = "failed"])
    ELSE CompleteInterview([p EXCEPT !.last = "failed"],
                           generateSummary(p.key, FALSE, p), "fallback")

BatchDifficulties == <<"easy", "medium", "hard">>
\* The count generateQuestionsBatch asks of each generateQuestions call.
RequestedCount == 2

\* The orders [...availableQuestions].sort(() => 0.5 - Math.random()) may
\* leave the four fallback questions of a difficulty in.
Shuffles ==
    {s \in [1..4 -> 1..4] : \A i, j \in 1..4 : s[i] = s[j] => i = j}

\* generateQuestions after every model failed.
fallbackQuestions(difficulty, count, shuffled) ==
    [i \in 1..Min(count, 4) |->
        [question |-> "fallback-" \o difficulty \o "-" \o ToString(shuffled[i]),
         difficulty |-> difficulty,
         timeLimit |-> IF difficulty = "easy" THEN 20
                       ELSE IF difficulty = "medium" THEN 60 ELSE 120]]

\* generateQuestionsBatch returns.
BatchDone(p, allQuestions) ==
    [p EXCEPT !.stage = "done", !.allQuestions = allQuestions,
              !.questions = BatchResult(allQuestions)]

\* A generateQuestions call of the batch has returned questions: the batch
\* goes on to its next call, or returns after the third.
RECURSIVE NextCall(_, _)
NextCall(p, questions) ==
    LET p1 == [p EXCEPT !.allQuestions = @ \o questions]
    IN IF p.call = Len(BatchDifficulties)
       THEN BatchDone(p1, p1.allQuestions)
       ELSE LET p2 == [p1 EXCEPT !.call = @ + 1, !.log = <<>>]
            IN IF ~checkApiKey(p2.key)
               THEN NextCall(p2, <<>>)
               ELSE RequestNext(p2)

\* generateQuestionsBatch up to the first request of generateQuestions.
\* connected: the result of PerplexityAPI.testConnection().
generateQuestionsBatchStart(p, connected) ==
    IF ~isApiKeyAvailable(p.key)
    THEN BatchDone([p EXCEPT !.source = "missing-key"], <<>>)
    ELSE IF ~connected
    THEN BatchDone([p EXCEPT !.source = "no-connection"], <<>>)
    ELSE NextCall([p EXCEPT !.source = "model"], <<>>)

\* generateQuestions from the return of a request on.
generateQuestionsAttempt(p, o, shuffled) ==
    LET difficulty == BatchDifficulties[p.call]
    IN IF o.kind = "reply" /\ o.content > 0
       THEN NextCall([p EXCEPT !.last = "ok", !.reply = o.content],
                     generateQuestions(difficulty, RequestedCount, o.content))
       ELSE IF Len(p.log) < Len(Models)
       THEN RequestNext([p EXCEPT !.last = "failed"])
       ELSE NextCall([p EXCEPT !.last = "failed", !.source = "fallback"],
                     fallbackQuestions(difficulty, RequestedCount, shuffled))

\* The 30 s timeout wins the race against a generateQuestions call.
generateQuestionsTimeout(p) ==
    BatchDone([p EXCEPT !.last = "timeout", !.source = "timeout"], <<>>)

\* ---------------------------------------------------------------- actions
\* The credential and whether the provider answers the requests made with
\* it. A key that fails isApiKeyAvailable (a placeholder, or shorter than 30
\* characters) is none the provider accepts: every request with it fails.
Providers ==
    {p \in [key : KeyKinds, up : BOOLEAN, raw : ReplyScores] :
        p.up => isApiKeyAvailable(p.key)}

\* IntervieweeTab.handleSubmit has just added a candidate, selected it and
\* asked for InterviewChat to be shown.
Init ==
    /\ candidates = [id \in CandidateIds |-> NewCandidate(id)]
    /\ currentCandidateId \in CandidateIds
    /\ chat = InitialChat
    /\ calls = [gens |-> <<>>, evals |-> <<>>, fins |-> <<>>]
    /\ hist = [userEvents |-> 0, resets |-> 0, finStarts |-> 0,
               scoreWrites |-> 0]
    /\ provider \in Providers
    /\ probe = NoProbe

WithinBounds(w) ==
    /\ Len(w.calls.gens) <= MaxInFlight
    /\ Len(w.calls.evals) <= MaxInFlight
    /\ Len(w.calls.fins) <= MaxInFlight
    /\ \A id \in DOMAIN w.candidates : Len(w.candidates[id].answers) <= MaxAnswers
    /\ w.hist.userEvents <= MaxUserEvents

Commit(w) ==
    /\ WithinBounds(w)
    /\ candidates' = w.candidates
    /\ currentCandidateId' = w.currentCandidateId
    /\ chat' = w.chat
    /\ calls' = w.calls
    /\ hist' = w.hist
    /\ UNCHANGED <<provider, probe>>

UserEvent(w) == [w EXCEPT !.hist.userEvents = @ + 1]

\* The interview card shown although a call is awaited: no spinner hides it.
ControlsShownWhileLoading ==
    /\ chat.mounted
    /\ ActiveCandidate(World).id # Null
    /\ ActiveCandidate(World).interviewStatus # "completed"

\* What InterviewChat renders: the interview card with its controls, rather
\* than the completed screen, a spinner or "No candidate selected".
ControlsShown ==
    /\ chat.mounted
    /\ ActiveCandidate(World).id # Null
    /\ ActiveCandidate(World).interviewStatus # "completed"
    /\ ~chat.loading

\* First render of InterviewChat: the useState initialisers, then all effects.
MountStep ==
    LET ac == ActiveCandidate(World)
        fresh == [InitialChat EXCEPT
                     !.mounted = TRUE,
                     !.timeLeft = IF ac.id = Null THEN 0 ELSE ac.timeLeft,
                     !.isPaused = IF ac.id = Null THEN FALSE ELSE ac.isPaused,
                     !.autoSubmits = chat.autoSubmits]
    IN Settle(World, [World EXCEPT !.chat = fresh])

Mount ==
    /\ ~chat.mounted
    /\ Commit(MountStep)

\* generateQuestionsBatch resolves with the questions the provider produced.
GenResolveProvider ==
    \E i \in 1..Len(calls.gens), counts \in BatchCounts :
        /\ isApiKeyAvailable(provider.key) /\ provider.up
        /\ Commit(Settle(World,
              generationThen(World, i, BatchResult(ProviderBatch(counts)))))

\* generateQuestionsBatch resolves with the default questions: the connection
\* test failed, or a call lost the race against the 30 s timeout.
GenResolveDefaultStep(i) ==
    Settle(World, generationThen(World, i, BatchResult(<<>>)))

GenResolveDefault ==
    \E i \in 1..Len(calls.gens) :
        /\ isApiKeyAvailable(provider.key)
        /\ Commit(GenResolveDefaultStep(i))

\* onChange of the answer box.
TypeAnswer ==
    \E t \in TypedTexts \cup {""} :
        /\ ControlsShown /\ ~chat.isPaused
        /\ t # chat.answer
        /\ Commit(Settle(World, UserEvent(SetAnswer(World, t))))

\* onClick of "Submit Answer": the submitAnswer of the current render.
ManualSubmit ==
    /\ ControlsShown /\ ~chat.isPaused
    /\ LET cl == [cand |-> ActiveCandidate(World), answer |-> chat.answer]
           w == submitAnswer(World, cl, "candidate", chat.answer)
       IN /\ w # World
          /\ Commit(Settle(World, UserEvent(w)))

\* onClick of Pause / Resume.
TogglePause ==
    /\ ControlsShown
    /\ Commit(Settle(World, UserEvent(togglePause(World))))

\* The interval callback. It cannot run while a setTimeout(submitAnswer, 100)
\* of an earlier expiry is pending: the interval period is 1000 ms.
TickGuard ==
    /\ chat.mounted /\ chat.timerOn
    /\ chat.autoSubmits = <<>>

\* The interval callback storing the countdown with the selected session.
TickStepStoringTimeLeft ==
    LET newTime == Max(0, chat.timeLeft - 1)
        w == IF newTime <= 0
             THEN [World EXCEPT
                     !.chat.timerOn = FALSE,
                     !.chat.timerClosure = NoClosure,
                     !.chat.autoSubmits = Append(@,
                         [cl |-> chat.timerClosure, box |-> chat.answer]),
                     !.chat.timeLeft = 0]
             ELSE [World EXCEPT !.chat.timeLeft = newTime]
    IN Settle(World, Dispatch(w, [ActiveCandidate(w) EXCEPT
                                     !.timeLeft = newTime]))

TickStep ==
    LET newTime == chat.timeLeft - 1
        w == IF newTime <= 0
             THEN [World EXCEPT
                     !.chat.timerOn = FALSE,
                     !.chat.timerClosure = NoClosure,
                     !.chat.autoSubmits = Append(@,
                         [cl |-> chat.timerClosure, box |-> chat.answer]),
                     !.chat.timeLeft = 0]
             ELSE [World EXCEPT !.chat.timeLeft = newTime]
    IN Settle(World, w)

Tick ==
    /\ TickGuard
    /\ Commit(TickStep)

\* The setTimeout(() => submitAnswer(), 100) of an expired countdown.
AutoSubmitStep ==
    LET p == Head(chat.autoSubmits)
        w == [World EXCEPT !.chat.autoSubmits = Tail(@)]
    IN Settle(World, submitAnswer(w, p.cl, "timer", p.box))

AutoSubmitFire ==
    /\ chat.autoSubmits # <<>>
    /\ Commit(AutoSubmitStep)

\* PerplexityAPI.evaluateAnswer returns to a waiting submitAnswer.
EvalResolveStep(i) == Settle(World, submitAnswerThen(World, i))

EvalResolve ==
    \E i \in 1..Len(calls.evals) :
        /\ checkApiKey(provider.key)
        /\ Commit(EvalResolveStep(i))

\* PerplexityAPI.generateSummary returns to a waiting finishInterview.
FinResolveStep(i) == Settle(World, finishInterviewThen(World, i))

FinResolve ==
    \E i \in 1..Len(calls.fins) :
        /\ checkApiKey(provider.key)
        /\ Commit(FinResolveStep(i))

\* InterviewerTab.restartInterview, confirmed.
RestartInterview ==
    \E id \in DOMAIN candidates :
        /\ candidates[id].interviewStatus \in {"in_progress", "completed"}
        /\ Commit(Settle(World,
              [UserEvent(World) EXCEPT
                  !.candidates = resetInterview(@, id),
                  !.currentCandidateId = Null,
                  !.hist.resets = @ + 1,
                  !.hist.finStarts = 0,
                  !.hist.scoreWrites = 0]))

Next ==
    \/ Mount
    \/ GenResolveProvider
    \/ GenResolveDefault
    \/ TypeAnswer
    \/ ManualSubmit
    \/ TogglePause
    \/ Tick
    \/ AutoSubmitFire
    \/ EvalResolve
    \/ FinResolve
    \/ RestartInterview

Spec == Init /\ [][Next]_vars

\* The runs in which every provider call fails.
InitExhausted == Init /\ ~provider.up

NextExhausted ==
    \/ Mount
    \/ GenResolveDefault
    \/ TypeAnswer
    \/ ManualSubmit
    \/ TogglePause
    \/ Tick
    \/ AutoSubmitFire
    \/ EvalResolve
    \/ FinResolve
    \/ RestartInterview

\* The steps the browser takes by itself: the first render, a timer callback
\* that is due, the continuation of a call that has returned.
SystemStep ==
    \/ Mount
    \/ GenResolveDefault
    \/ Tick
    \/ AutoSubmitFire
    \/ EvalResolve
    \/ FinResolve

\* w can be committed and differs from the present state.
CanCommit(w) ==
    /\ WithinBounds(w)
    /\ <<w.candidates, w.currentCandidateId, w.chat, w.calls, w.hist>>
           # <<candidates, currentCandidateId, chat, calls, hist>>

\* ENABLED <<SystemStep>>_vars, from the guards of the actions.
SystemStepEnabled ==
    \/ ~chat.mounted /\ CanCommit(MountStep)
    \/ \E i \in 1..Len(calls.gens) :
          isApiKeyAvailable(provider.key) /\ CanCommit(GenResolveDefaultStep(i))
    \/ TickGuard /\ CanCommit(TickStep)
    \/ chat.autoSubmits # <<>> /\ CanCommit(AutoSubmitStep)
    \/ \E i \in 1..Len(calls.evals) :
          checkApiKey(provider.key) /\ CanCommit(EvalResolveStep(i))
    \/ \E i \in 1..Len(calls.fins) :
          checkApiKey(provider.key) /\ CanCommit(FinResolveStep(i))

\* Weak fairness of SystemStep, WF_vars(SystemStep), with its ENABLED written
\* as the state predicate above: the event loop runs a timer callback that is
\* due and the continuation of a call that has returned, and a call returns
\* at the latest when its 30 s timeout expires. Nothing is assumed about what
\* the candidate does.
ExhaustedSpec ==
    /\ InitExhausted
    /\ [][NextExhausted]_vars
    /\ ([]<>(~SystemStepEnabled) \/ []<><<SystemStep>>_vars)

\* ------------------------------------------------- the other adapters
\* evaluateAnswer of the adapters the repository holds beside PerplexityAPI.
\* Each makes one request. configured: the adapter's key check passes.
\* o.kind is "error" when the request throws, else "reply"; o.content gives
\* the reply: whether it parses as JSON, and the score written in it
\* (NoScore when there is none).
Adapters == {"OpenRouterAPI", "GeminiAPI", "OpenAIAPI"}

AdapterReplies == [json : BOOLEAN, number : ReplyNumbers]

AdapterOutcomes ==
    {[kind |-> "error", content |-> [json |-> FALSE, number |-> NoScore]]}
        \cup {[kind |-> "reply", content |-> c] : c \in AdapterReplies}

Returned(score) == [returned |-> TRUE, score |-> score]
Thrown == [returned |-> FALSE, score |-> NoScore]

OpenRouterEvaluateAnswer(configured, o) ==
    IF ~configured THEN Returned(50)
    ELSE IF o.kind = "error" THEN Returned(5)
    ELSE IF o.content.json
    THEN Returned(Max(0, Min(10, IF o.content.number \in {NoScore, 0}
                                 THEN 5 ELSE o.content.number)))
    ELSE Returned(IF o.content.number # NoScore
                  THEN Max(0, Min(10, o.content.number)) ELSE 5)

GeminiEvaluateAnswer(configured, o) ==
    IF ~configured \/ o.kind = "error" THEN Thrown
    ELSE IF o.content.json THEN Returned(o.content.number)
    ELSE Thrown

OpenAIEvaluateAnswer(configured, o) ==
    IF ~configured \/ o.kind = "error" THEN Thrown
    ELSE IF o.content.json THEN Returned(o.content.number)
    ELSE Thrown

AdapterEvaluateAnswer(adapter, configured, o) ==
    CASE adapter = "OpenRouterAPI" -> OpenRouterEvaluateAnswer(configured, o)
      [] adapter = "GeminiAPI" -> GeminiEvaluateAnswer(configured, o)
      [] adapter = "OpenAIAPI" -> OpenAIEvaluateAnswer(configured, o)

\* ------------------------------------- PerplexityAPI operations on their own
\* The adapter's operations applied to inputs drawn from bounded sets: an
\* evaluation of one answer, the completion of one session, the generation
\* of one question list. The interview itself stays as constructed.
ProbeInits ==
    {[NoProbe EXCEPT !.op = "evaluate", !.stage = "called",
                     !.key = k, !.answer = a] :
        k \in KeyKinds, a \in ProbeAnswers}
    \cup {[NoProbe EXCEPT !.op = "finalize", !.stage = "called",
                          !.key = k, !.answers = AnswersWithScores(l)] :
             k \in KeyKinds, l \in ProbeScoreLists}
    \cup {[NoProbe EXCEPT !.op = "generate", !.stage = "called", !.key = k] :
             k \in KeyKinds}
    \cup {[NoProbe EXCEPT !.op = "adapterEvaluate", !.stage = "called",
                          !.adapter = a, !.key = k] :
             a \in Adapters, k \in {"none", "valid"}}

InitProvider ==
    /\ candidates = [id \in CandidateIds |-> NewCandidate(id)]
    /\ currentCandidateId \in CandidateIds
    /\ chat = InitialChat
    /\ calls = [gens |-> <<>>, evals |-> <<>>, fins |-> <<>>]
    /\ hist = [userEvents |-> 0, resets |-> 0, finStarts |-> 0,
               scoreWrites |-> 0]
    /\ probe \in ProbeInits
    /\ provider = [key |-> probe.key, up |-> FALSE, raw |-> 0]

Interview == <<candidates, currentCandidateId, chat, calls, hist, provider>>

\* submitAnswer calls PerplexityAPI.evaluateAnswer.
EvaluateStart ==
    /\ probe.op = "evaluate" /\ probe.stage = "called"
    /\ probe' = evaluateAnswerStart(probe)
    /\ UNCHANGED Interview

\* A request of evaluateAnswer returns.
EvaluateAttempt ==
    \E o \in RequestOutcomes(ReplyNumbers, NoScore) :
        /\ probe.op = "evaluate" /\ probe.stage = "loop"
        /\ probe' = evaluateAnswerAttempt(probe, o)
        /\ UNCHANGED Interview

\* evaluateAnswer of another adapter is called and returns or throws.
AdapterEvaluate ==
    \E o \in AdapterOutcomes :
        /\ probe.op = "adapterEvaluate" /\ probe.stage = "called"
        /\ LET result == AdapterEvaluateAnswer(probe.adapter,
                                               probe.key = "valid", o)
           IN probe' = [probe EXCEPT
                           !.stage = IF result.returned THEN "done" ELSE "threw",
                           !.source = IF probe.key = "valid"
                                      THEN o.kind ELSE "missing-key",
                           !.reply = o.content.number,
                           !.score = result.score]
        /\ UNCHANGED Interview

\* finishInterview runs and calls PerplexityAPI.generateSummary.
FinishStart ==
    /\ probe.op = "finalize" /\ probe.stage = "called"
    /\ probe' = finishInterviewStart(probe)
    /\ UNCHANGED Interview

\* A request of generateSummary returns.
SummaryAttempt ==
    \E o \in RequestOutcomes(SummaryContents, "") :
        /\ probe.op = "finalize" /\ probe.stage = "loop"
        /\ probe' = generateSummaryAttempt(probe, o)
        /\ UNCHANGED Interview

\* generateQuestionsBatch runs up to its first generateQuestions request.
BatchStart ==
    \E connected \in BOOLEAN :
        /\ probe.op = "generate" /\ probe.stage = "called"
        /\ probe' = generateQuestionsBatchStart(probe, connected)
        /\ UNCHANGED Interview

\* A request of generateQuestions returns.
GenerateAttempt ==
    \E o \in RequestOutcomes(ReplyLineCounts, 0), shuffled \in Shuffles :
        /\ probe.op = "generate" /\ probe.stage = "loop"
        /\ probe' = generateQuestionsAttempt(probe, o, shuffled)
        /\ UNCHANGED Interview

\* The timeout promise of generateQuestionsBatch rejects.
GenerateTimeout ==
    /\ probe.op = "generate" /\ probe.stage = "loop"
    /\ probe' = generateQuestionsTimeout(probe)
    /\ UNCHANGED Interview

NextProvider ==
    \/ EvaluateStart
    \/ EvaluateAttempt
    \/ AdapterEvaluate
    \/ FinishStart
    \/ SummaryAttempt
    \/ BatchStart
    \/ GenerateAttempt
    \/ GenerateTimeout

ProviderSpec == InitProvider /\ [][NextProvider]_vars

\* ------------------------------------------------- the store on its own
\* The resetInterview reducer applied to stores of two sessions, for the id
\* of either and for an id the store does not hold.
StoreIds == {"c1", "c2"}
UnknownId == "c9"

\* A candidate as IntervieweeTab.handleSubmit adds it: the interview fields
\* and the profile taken from the resume.
WithProfile(c, name) ==
    [f \in DOMAIN c \cup {"name"} |-> IF f = "name" THEN name ELSE c[f]]

\* The states a stored session is found in.
StoredSessions(id) ==
    LET new == WithProfile(NewCandidate(id), "name of " \o id)
        questions == BatchResult(<<>>)
        answer == [questionId |-> questions[1].id, text |-> "a closure",
                   score |-> 5, feedback |-> "missing-key"]
    IN {new,
        [new EXCEPT !.interviewStatus = "in_progress",
                    !.questions = questions,
                    !.timeLeft = 20],
        [new EXCEPT !.interviewStatus = "in_progress",
                    !.questions = questions,
                    !.answers = <<answer>>,
                    !.currentQuestionIndex = 1,
                    !.timeLeft = 7,
                    !.isPaused = TRUE],
        [new EXCEPT !.interviewStatus = "completed",
                    !.questions = questions,
                    !.answers = <<answer>>,
                    !.currentQuestionIndex = 1,
                    !.score = 8,
                    !.summary = "template-moderate",
                    !.completedAt = "set"]}

InitStore ==
    /\ candidates \in {c \in [StoreIds -> UNION {StoredSessions(id) : id \in StoreIds}] :
                          \A id \in StoreIds : c[id] \in StoredSessions(id)}
    /\ currentCandidateId \in StoreIds \cup {Null}
    /\ chat = InitialChat
    /\ calls = [gens |-> <<>>, evals |-> <<>>, fins |-> <<>>]
    /\ hist = [userEvents |-> 0, resets |-> 0, finStarts |-> 0,
               scoreWrites |-> 0]
    /\ provider = [key |-> "none", up |-> FALSE, raw |-> 0]
    /\ probe \in {[NoProbe EXCEPT !.op = "resetInterview", !.stage = "called",
                                   !.id = id] : id \in StoreIds \cup {UnknownId}}

\* dispatch(resetInterview(id))
ResetDispatch ==
    /\ probe.op = "resetInterview" /\ probe.stage = "called"
    /\ candidates' = resetInterview(candidates, probe.id)
    /\ probe' = [probe EXCEPT !.stage = "done"]
    /\ UNCHANGED <<currentCandidateId, chat, calls, hist, provider>>

StoreSpec == InitStore /\ [][ResetDispatch]_vars

\* ------------------------------------------------------------- properties
Sessions == DOMAIN candidates

GenerationsFor(id) == {i \in 1..Len(calls.gens) : calls.gens[i].cand.id = id}

C2_TimerSubmitsAnswerBox ==
    \A i \in 1..Len(calls.evals) :
        (calls.evals[i].via = "timer" /\ calls.evals[i].box # "")
            => calls.evals[i].text = calls.evals[i].box

\* C3: whenever the selected session is in progress on a question it has and
\* is not paused, the countdown is running (or its expiry is being handled).
C3_CountdownRunning ==
    LET ac == ActiveCandidate(World)
    IN (/\ chat.mounted /\ ac.id # Null
        /\ ac.interviewStatus = "in_progress"
        /\ ac.currentQuestionIndex < 6
        /\ HasQuestion(ac, ac.currentQuestionIndex)
        /\ ~chat.isPaused /\ ~ac.isPaused)
       => \/ chat.timerOn
          \/ chat.autoSubmits # <<>>
          \/ Len(calls.evals) > 0

\* The session ended as a full interview on the default questions.
CompletedOnDefaults ==
    \E id \in Sessions :
        LET c == candidates[id]
        IN /\ c.interviewStatus = "completed"
           /\ c.questions = BatchResult(<<>>)
           /\ Len(c.answers) = 6
           /\ c.score # NoScore
           /\ c.summary # ""

\* The selected session poses a question with no countdown running and no
\* call outstanding: it moves on when the candidate submits or resumes.
AwaitingCandidate ==
    LET ac == ActiveCandidate(World)
    IN /\ ControlsShown
       /\ ac.interviewStatus = "in_progress"
       /\ HasQuestion(ac, ac.currentQuestionIndex)
       /\ ~chat.timerOn /\ chat.autoSubmits = <<>>
       /\ calls = [gens |-> <<>>, evals |-> <<>>, fins |-> <<>>]

\* C4: when every provider call fails, a session that is not reset obtains
\* the 6 default questions and reaches Completed with 6 answers, a score and
\* a summary, unless it ends up waiting for the candidate to submit a posed
\* question; it never waits for a provider for ever.
C4_ExhaustedChainCompletes ==
    \/ <>CompletedOnDefaults
    \/ <>(hist.resets > 0)
    \/ <>[]AwaitingCandidate

\* With every provider call failing, a session has been completed on the
\* default questions with heuristic scores.
C4_Witness ==
    /\ ~provider.up /\ hist.resets = 0
    /\ CompletedOnDefaults

\* C5: in every state of every session, answers.length equals
\* currentQuestionIndex.
C5_AnswersMatchIndex ==
    \A id \in Sessions :
        Len(candidates[id].answers) = candidates[id].currentQuestionIndex

Difficulties(questions) == [i \in 1..Len(questions) |-> questions[i].difficulty]

\* C6: every session has 0 or 6 questions, and 6 questions have the
\* difficulties Easy, Easy, Medium, Medium, Hard, Hard in this order.
C6_QuestionShape ==
    \A id \in Sessions :
        LET qs == candidates[id].questions
        IN \/ Len(qs) = 0
           \/ /\ Len(qs) = 6
              /\ Difficulties(qs) =
                    <<"Easy", "Easy", "Medium", "Medium", "Hard", "Hard">>

\* C7 as stated: in every state of every session, status is Completed if and
\* only if the score is non-null, if and only if there are 6 answers.
C7_CompletedIffScoreIffSixAnswers ==
    \A id \in Sessions :
        LET c == candidates[id]
        IN /\ (c.interviewStatus = "completed") <=> (c.score # NoScore)
           /\ (c.score # NoScore) <=> (Len(c.answers) = 6)

\* C7 amended: in every state of every session, status is Completed if and
\* only if the score is non-null, and a Completed session has 6 answers.
C7_CompletedIffScore ==
    \A id \in Sessions :
        LET c == candidates[id]
        IN /\ (c.interviewStatus = "completed") <=> (c.score # NoScore)
           /\ (c.interviewStatus = "completed") => (Len(c.answers) = 6)

\* A session was completed by finishInterview: it has its score and 6 answers.
C7_Witness ==
    \E id \in Sessions :
        /\ candidates[id].interviewStatus = "completed"
        /\ candidates[id].score # NoScore
        /\ Len(candidates[id].answers) = 6
        /\ hist.scoreWrites > 0

\* C8: short of a reset, an answer once recorded for a question stays as it
\* is: no step removes or replaces an entry of answers.
C8_AnswersAppendOnly ==
    [][hist.resets' = hist.resets =>
        \A id \in Sessions :
            \A k \in 1..Len(candidates[id].answers) :
                /\ Len(candidates'[id].answers) >= k
                /\ candidates'[id].answers[k] = candidates[id].answers[k]]_vars

StatusRank(status) ==
    IF status = "not_started" THEN 0
    ELSE IF status = "in_progress" THEN 1 ELSE 2

\* C9: short of a reset, the status of a session only moves forward along
\* not_started, in_progress, completed.
C9_StatusForward ==
    [][hist.resets' = hist.resets =>
        \A id \in Sessions :
            StatusRank(candidates'[id].interviewStatus)
                >= StatusRank(candidates[id].interviewStatus)]_vars

\* C10: between two resets of a session, finishInterview is started at most
\* once and the score is written at most once.
C10_AggregationOnce ==
    hist.finStarts <= 1 /\ hist.scoreWrites <= 1

\* The fields of a session that a provider response decides.
Outcome(c) ==
    <<c.questions, c.answers, c.currentQuestionIndex, c.interviewStatus,
      c.score, c.summary>>

\* C11: only the first response that resolves for a generation or for an
\* aggregation of a session changes it. A generation response that resolves
\* for a session that has its questions, and an aggregation response that
\* resolves after one has already written the score since the last reset,
\* leave questions, answers, currentQuestionIndex, status, score and summary
\* as they are.
C11_FirstResponseWins ==
    [][\A id \in Sessions :
          (\/ /\ hist.scoreWrites >= 1
              /\ hist.scoreWrites' > hist.scoreWrites
           \/ /\ Len(calls'.gens) < Len(calls.gens)
              /\ Len(candidates[id].questions) > 0)
          => Outcome(candidates'[id]) = Outcome(candidates[id])]_vars

\* The selected session is over for the countdown: it is Completed, or no
\* session is selected any more (restartInterview deselects the one it resets).
SessionEnded ==
    \/ ActiveCandidate(World).id = Null
    \/ ActiveCandidate(World).interviewStatus = "completed"

\* C12: once the selected session is Completed, is reset or is no longer
\* selected, no countdown tick happens and no submitAnswer started by the
\* countdown runs: no step from such a state lowers timeLeft, and none takes a
\* pending setTimeout(submitAnswer, 100) and starts an evaluation or changes a
\* stored session, and none applies the evaluation of such a submitAnswer to
\* a stored session.
C12_NoTimerAfterSessionEnded ==
    [][SessionEnded =>
        /\ ~(chat.timerOn /\ chat'.timeLeft < chat.timeLeft)
        /\ ~(/\ chat.autoSubmits # <<>>
             /\ chat'.autoSubmits = Tail(chat.autoSubmits)
             /\ \/ Len(calls'.evals) > Len(calls.evals)
                \/ candidates' # candidates)
        /\ ~(\E i \in 1..Len(calls.evals) :
                /\ calls.evals[i].via = "timer"
                /\ calls'.evals = RemoveAt(calls.evals, i)
                /\ candidates' # candidates)]_vars

\* C13: when the initialisation effect runs on a session that is already
\* Completed, however often, it starts no finishInterview (no summary request)
\* and leaves the stored sessions, so score, summary and completion time, as
\* they are; and no finishInterview that is awaiting its summary was started
\* on a session that was Completed.
C13_CompletedNotFinalizedAgain ==
    LET ac == ActiveCandidate(World)
        once == InitEffect(World, World)
        twice == InitEffect(once, once)
    IN /\ (chat.mounted /\ ac.id # Null /\ ac.interviewStatus = "completed")
          => /\ once.calls.fins = calls.fins /\ twice.calls.fins = calls.fins
             /\ once.hist.finStarts = hist.finStarts
             /\ twice.hist.finStarts = hist.finStarts
             /\ once.candidates = candidates /\ twice.candidates = candidates
       /\ \A i \in 1..Len(calls.fins) :
             calls.fins[i].cand.interviewStatus # "completed"

\* The selected session was completed by the one aggregation that ran, with
\* the final score 0 that the score test of the effect takes for "no score";
\* the effect has run again on the Completed session, and the guard flag of
\* the aggregation is released.
C13_Witness ==
    LET ac == ActiveCandidate(World)
    IN /\ chat.mounted /\ ac.id # Null
       /\ ac.interviewStatus = "completed"
       /\ ac.currentQuestionIndex >= 6 /\ Len(ac.questions) > 0
       /\ ac.score = 0
       /\ ~chat.hasFinishedInterview
       /\ hist.finStarts = 1 /\ hist.scoreWrites = 1
       /\ calls.fins = <<>>

\* The pause flag is set, in the component or in the selected session.
Paused ==
    \/ chat.isPaused
    \/ ActiveCandidate(World).id # Null /\ ActiveCandidate(World).isPaused

C15_PauseResumeFrame ==
    [][(/\ ControlsShown
        /\ chat'.isPaused # chat.isPaused
        /\ hist.userEvents' = hist.userEvents + 1)
       => /\ \A id \in Sessions :
                Outcome(candidates'[id]) = Outcome(candidates[id])
          /\ chat'.timeLeft = chat.timeLeft
          /\ ActiveCandidate(World).id # Null
          /\ candidates'[ActiveCandidate(World).id].timeLeft = chat.timeLeft]_vars

\* Session id gains exactly one answer, with the text of an expired empty
\* answer box, for the question it was on, and moves on by one question.
SentinelAnswerAppended(id) ==
    LET c == candidates[id]
        d == candidates'[id]
    IN /\ Len(d.answers) = Len(c.answers) + 1
       /\ SubSeq(d.answers, 1, Len(c.answers)) = c.answers
       /\ d.answers[Len(d.answers)].text = NoAnswerText
       /\ HasQuestion(c, c.currentQuestionIndex)
       /\ d.answers[Len(d.answers)].questionId
              = c.questions[c.currentQuestionIndex + 1].id
       /\ d.currentQuestionIndex = c.currentQuestionIndex + 1

\* C16: when the countdown reached 0 with an empty answer box, the step that
\* records the automatic submission (the evaluation returns, or there is no
\* key and submitAnswer runs through) appends exactly one answer with the
\* text "No answer provided (time ran out)" for the current question and
\* increases currentQuestionIndex by exactly 1.
C16_ExpiryAppendsSentinel ==
    [][/\ \A i \in 1..Len(calls.evals) :
            (/\ calls.evals[i].via = "timer" /\ calls.evals[i].box = ""
             /\ calls'.evals = RemoveAt(calls.evals, i))
            => SentinelAnswerAppended(calls.evals[i].cand.id)
       /\ (/\ chat.autoSubmits # <<>>
           /\ ~checkApiKey(provider.key)
           /\ chat'.autoSubmits = Tail(chat.autoSubmits)
           /\ Head(chat.autoSubmits).box = "")
          => SentinelAnswerAppended(Head(chat.autoSubmits).cl.cand.id)]_vars

\* The Question Bank as the source lists it: text, difficulty, time limit.
QuestionBankInOrder ==
    << <<"bank-1", "Easy", 20>>, <<"bank-2", "Easy", 20>>,
       <<"bank-3", "Medium", 60>>, <<"bank-4", "Medium", 60>>,
       <<"bank-5", "Hard", 120>>, <<"bank-6", "Hard", 120>> >>

QuestionTriples(questions) ==
    [i \in 1..Len(questions) |->
        <<questions[i].question, questions[i].difficulty,
          questions[i].timeLimit>>]

C18_NoCredentialAsExhausted ==
    provider.key = "none" =>
        \A id \in Sessions :
            LET c == candidates[id]
            IN /\ \A k \in 1..Len(c.answers) :
                     LET e == evaluateAnswer("valid", FALSE, provider.raw,
                                             c.answers[k].text)
                     IN /\ c.answers[k].score = e.score
                        /\ c.answers[k].feedback = e.feedback
               /\ c.summary # ""
                     => c.summary = generateSummary("valid", FALSE, c)

\* C19: with a credential that isApiKeyAvailable rejects, no operation issues
\* a network request: no generation, evaluation or summary call is ever
\* waiting for the provider.
C19_RejectedKeyNoRequest ==
    ~isApiKeyAvailable(provider.key) =>
        /\ calls.gens = <<>>
        /\ calls.evals = <<>>
        /\ calls.fins = <<>>

\* The session holds the answers of snapshot ac and one more, for the text
\* submitted, with a score, and is one question further than ac.
AnswerRecorded(d, ac, text) ==
    /\ Len(d.answers) = Len(ac.answers) + 1
    /\ SubSeq(d.answers, 1, Len(ac.answers)) = ac.answers
    /\ d.answers[Len(d.answers)].text = text
    /\ d.answers[Len(d.answers)].score # NoScore
    /\ d.currentQuestionIndex = ac.currentQuestionIndex + 1

QuestionsPopulated(d) ==
    /\ d.interviewStatus = "in_progress"
    /\ Len(d.questions) = 6
    /\ \A k \in 1..Len(d.questions) :
          d.questions[k].question # "" /\ d.questions[k].timeLimit > 0

NoCallOutstanding ==
    calls = [gens |-> <<>>, evals |-> <<>>, fins |-> <<>>]

C21_ScoresInRange ==
    /\ \A id \in Sessions :
          /\ \A i \in 1..Len(candidates[id].answers) :
                candidates[id].answers[i].score \in 0..10
          /\ candidates[id].score # NoScore => candidates[id].score \in 0..100
    /\ (probe.op = "evaluate" /\ probe.stage = "done") => probe.score \in 0..10
    /\ probe.interviewStatus = "completed" => probe.finalScore \in 0..100

\* A provider wrote "Score: 15" and 10 was recorded.
C21_Witness ==
    /\ probe.op = "evaluate" /\ probe.stage = "done"
    /\ probe.source = "model" /\ probe.reply = 15
    /\ probe.score = 10

\* r is 10 * total / 6 rounded to the nearest integer, halves upwards.
RoundedAverage(r, total) == 6 * r - 3 <= 10 * total /\ 10 * total < 6 * r + 3

\* score is the final score of a session with these answers.
IsFinalScoreOf(score, answers) ==
    \E r \in 0..(2 * 10 * (MaxAnswers + 1)) :
        /\ RoundedAverage(r, SumScores(answers))
        /\ score = Max(0, Min(100, r))

HeuristicUsed ==
    /\ probe.op = "evaluate" /\ probe.stage = "done"
    /\ probe.source = "fallback"

\* C23: when a credential is configured and the request to every model has
\* failed, the evaluation's score is 3, plus 1 for an answer longer than 50
\* characters, plus 1 for one longer than 100, plus 1 for each listed
\* keyword in it up to 3, and at most 10; an answer of 120 characters with
\* "api" and "database" scores 7.
C23_HeuristicScore ==
    /\ HeuristicUsed =>
          LET lengthPoints == IF probe.answer.len > 100 THEN 2
                              ELSE IF probe.answer.len > 50 THEN 1 ELSE 0
              keywords == Cardinality(probe.answer.kw)
              keywordPoints == IF keywords > 3 THEN 3 ELSE keywords
              total == 3 + lengthPoints + keywordPoints
          IN /\ probe.score = (IF total > 10 THEN 10 ELSE total)
             /\ probe.answer = [len |-> 120, kw |-> {"api", "database"}]
                   => probe.score = 7
    /\ (probe.op = "evaluate" /\ probe.stage = "done"
          /\ checkApiKey(probe.key) /\ probe.last = "failed")
          => HeuristicUsed /\ Len(probe.log) = Len(Models)

C23_Witness ==
    /\ HeuristicUsed
    /\ probe.answer = [len |-> 120, kw |-> {"api", "database"}]
    /\ probe.score = 7

ProviderQuestionsObtained ==
    \E i \in 1..Len(probe.allQuestions) :
        probe.allQuestions[i].question
            \in {"ai-" \o BatchDifficulties[d] : d \in 1..Len(BatchDifficulties)}

\* C25: when question generation obtains no provider questions (no
\* credential, no connection, a timeout, every model failing), the questions
\* it returns are the 6 Question Bank items in bank order, the same text,
\* difficulty and timeLimit in every run.
C25_FallbackIsQuestionBank ==
    (probe.op = "generate" /\ probe.stage = "done" /\ ~ProviderQuestionsObtained)
        => QuestionTriples(probe.questions) = QuestionBankInOrder

\* The fields resetInterview gives the session it resets.
InterviewFieldsCleared(c) ==
    /\ c.interviewStatus = "not_started"
    /\ c.questions = <<>> /\ c.answers = <<>>
    /\ c.currentQuestionIndex = 0 /\ c.timeLeft = 0 /\ c.isPaused = FALSE
    /\ c.score = NoScore /\ c.summary = "" /\ c.completedAt = Null

\* C26: resetInterview(id) leaves the session id not started, with no
\* questions and no answers, index 0, timeLeft 0, not paused, score null,
\* an empty summary and no completion time, with its id and profile as they
\* were; every other session and the selection stay as they were; for an id
\* the store does not hold, nothing changes.
C26_ResetFrame ==
    [][(probe.op = "resetInterview" /\ probe.stage = "called"
          /\ probe'.stage = "done")
        => /\ DOMAIN candidates' = DOMAIN candidates
           /\ currentCandidateId' = currentCandidateId
           /\ \A id \in DOMAIN candidates :
                 IF id = probe.id
                 THEN /\ InterviewFieldsCleared(candidates'[id])
                      /\ DOMAIN candidates'[id] = DOMAIN candidates[id]
                      /\ candidates'[id].id = id
                      /\ candidates'[id].name = candidates[id].name
                 ELSE candidates'[id] = candidates[id]]_vars

\* Session c1 has been reset; c2, in progress, is still selected.
C26_Witness ==
    /\ probe.op = "resetInterview" /\ probe.stage = "done" /\ probe.id = "c1"
    /\ "c2" \in DOMAIN candidates
    /\ InterviewFieldsCleared(candidates["c1"])
    /\ candidates["c2"].interviewStatus = "in_progress"
    /\ currentCandidateId = "c2"

\* The step is the continuation of the i-th waiting submitAnswer.
SubmissionCompletes(i) ==
    /\ i \in 1..Len(calls.evals)
    /\ calls'.evals = RemoveAt(calls.evals, i)

\* C27: the step that completes a submission for question k appends exactly
\* one answer, for question k, to the stored answers, sets
\* currentQuestionIndex to k + 1, timeLeft to the time limit of question
\* k + 1 (0 after the last question) and isPaused to false, and leaves
\* questions, status, score and summary as they are.
C27_SubmissionUpdate ==
    [][\A i \in 1..Len(calls.evals) :
          SubmissionCompletes(i) =>
            LET call == calls.evals[i]
                id == call.cand.id
                k == CurrentIndex(call.cand)
                before == candidates[id]
                after == candidates'[id]
            IN /\ Len(after.answers) = Len(before.answers) + 1
               /\ SubSeq(after.answers, 1, Len(before.answers)) = before.answers
               /\ after.answers[Len(after.answers)].questionId
                     = call.cand.questions[k + 1].id
               /\ after.currentQuestionIndex = k + 1
               /\ after.timeLeft = (IF HasQuestion(before, k + 1)
                                    THEN TimeLimitOf(before, k + 1) ELSE 0)
               /\ ~after.isPaused
               /\ after.questions = before.questions
               /\ after.interviewStatus = before.interviewStatus
               /\ after.score = before.score
               /\ after.summary = before.summary]_vars

\* The last request of the generation brought a reply that was accepted.
GenerationReplyAccepted ==
    probe.op = "generate" /\ probe.last = "ok"

\* C28: a reply to a question-generation request is accepted only if it
\* yields the requested number of questions; a reply that yields fewer
\* counts as a failure of that model.
C28_ExactCountAccepted ==
    GenerationReplyAccepted => probe.reply >= RequestedCount

\* The recorded score was taken from the reply of a model.
ScoreFromReply ==
    /\ probe.op = "evaluate" /\ probe.stage = "done"
    /\ probe.source = "model"

\* C29: an evaluation reply that is empty or has no score that can be
\* parsed is a failure of its model and never gives the recorded score: a
\* score recorded from a reply is the number found in that reply.
C29_UnparsableReplyIsFailure ==
    ScoreFromReply => probe.reply # NoScore

\* A request of the operation in progress returns in this step.
AttemptReturns ==
    /\ probe.op \in {"evaluate", "finalize", "generate"}
    /\ probe.stage = "loop"
    /\ probe' # probe
    /\ probe'.last # "timeout"

\* The call whose request returned is over: the operation is done, or the
\* batch has gone on to its next generateQuestions call, which starts with
\* the first model again.
CallEnded ==
    \/ probe'.stage = "done" /\ probe'.log = probe.log
    \/ /\ probe.op = "generate" /\ probe'.stage = "loop"
       /\ probe'.call = probe.call + 1
       /\ probe'.log = <<Models[1]>>

\* C30: in every provider operation (question generation, evaluation,
\* summary) the models are requested in the order of the list, one at a
\* time; the first request that succeeds with a usable reply ends the call
\* and no further model is requested; a failed request is followed by a
\* request to the next model until the list is exhausted, and then the call
\* ends with its fallback.
C30_ModelsInOrder ==
    /\ [](probe.log = SubSeq(Models, 1, Len(probe.log)))
    /\ [][AttemptReturns =>
            /\ probe'.last \in {"ok", "failed"}
            /\ probe'.last = "ok" => CallEnded
            /\ (probe'.last = "failed" /\ Len(probe.log) < Len(Models))
                  => /\ probe'.stage = "loop"
                     /\ probe'.call = probe.call
                     /\ probe'.log = Append(probe.log, Models[Len(probe.log) + 1])
            /\ (probe'.last = "failed" /\ Len(probe.log) = Len(Models))
                  => CallEnded /\ probe'.source = "fallback"]_vars

\* An evaluation ended by the reply of the third model, after the first two
\* requests failed.
C30_Witness ==
    /\ probe.op = "evaluate" /\ probe.stage = "done"
    /\ probe.last = "ok"
    /\ probe.log = SubSeq(Models, 1, 3)

\* C31: whenever the countdown interval is armed, the selected session is in
\* progress, its currentQuestionIndex is below 6 and names an existing
\* question, and it is not paused.
C31_ArmedTimerHasRunningQuestion ==
    chat.timerOn =>
        LET ac == ActiveCandidate(World)
        IN /\ ac.id # Null
           /\ ac.interviewStatus = "in_progress"
           /\ ac.currentQuestionIndex < 6
           /\ HasQuestion(ac, ac.currentQuestionIndex)
           /\ ~ac.isPaused

\* The countdown of the second question is running.
C31_Witness ==
    /\ chat.timerOn
    /\ ActiveCandidate(World).id # Null
    /\ ActiveCandidate(World).currentQuestionIndex = 1
    /\ chat.timeLeft < 20

\* The index of c names no question of c although it is below 6.
IndexOutOfRange(c) ==
    /\ Len(c.questions) > 0
    /\ Len(c.questions) <= c.currentQuestionIndex
    /\ c.currentQuestionIndex < 6

C33_EveryAdapterScoreInRange ==
    (probe.op \in {"evaluate", "adapterEvaluate"} /\ probe.stage = "done")
        => probe.score \in 0..10

\* The average score of the answers, a missing score counting 0, is at least
\* k; with no answers the average is 0.
AverageAtLeast(answers, k) ==
    IF Len(answers) = 0 THEN 0 >= k
    ELSE SumScores(answers) >= k * Len(answers)

\* The key is configured and generateSummary got no summary from any model.
SummaryFromTemplate ==
    /\ probe.op = "finalize" /\ probe.stage = "done"
    /\ probe.source = "fallback"

\* C34: when a credential is configured and every model attempt for the
\* summary fails, the summary is the template, in its strong variant iff the
\* average score is 7 or more, in its moderate variant iff it is 5 or more
\* and less than 7, in its below-average variant otherwise; the scores
\* 8, 6, 7, 5, 9, 4 give the moderate variant.
C34_TemplateBands ==
    SummaryFromTemplate =>
        /\ Len(probe.log) = Len(Models)
        /\ probe.summary \in {"template-strong", "template-moderate",
                              "template-below"}
        /\ probe.summary = "template-strong"
              <=> AverageAtLeast(probe.answers, 7)
        /\ probe.summary = "template-moderate"
              <=> (AverageAtLeast(probe.answers, 5)
                     /\ ~AverageAtLeast(probe.answers, 7))
        /\ probe.answers = AnswersWithScores(<<8, 6, 7, 5, 9, 4>>)
              => probe.summary = "template-moderate"

\* Every model failed for the answers scored 8, 6, 7, 5, 9, 4 and the
\* moderate template was written.
C34_Witness ==
    /\ SummaryFromTemplate
    /\ probe.answers = AnswersWithScores(<<8, 6, 7, 5, 9, 4>>)
    /\ probe.summary = "template-moderate"

\* C35: between resets the currentQuestionIndex of a session never
\* decreases: no step other than a reset (a generation response, a manual or
\* automatic submission, pause and resume, a late provider response, the
\* clamping of the index) leaves it smaller than it was.
C35_IndexNeverDecreases ==
    [][hist.resets' = hist.resets =>
          \A id \in Sessions :
              candidates'[id].currentQuestionIndex
                  >= candidates[id].currentQuestionIndex]_vars

\* The evaluation requests i and j in flight are for the same question of
\* the same session.
SameQuestion(i, j) ==
    /\ calls.evals[i].cand.id = calls.evals[j].cand.id
    /\ calls.evals[i].cand.currentQuestionIndex
           = calls.evals[j].cand.currentQuestionIndex

\* C36: for each question of a session at most one evaluation request is in
\* flight at a time: while a submission of question k awaits its evaluation,
\* neither the countdown nor the candidate starts a second one for k.
C36_OneEvaluationPerQuestion ==
    \A i, j \in 1..Len(calls.evals) : SameQuestion(i, j) => i = j

\* The step is the return of an evaluation or of a summary that was
\* requested for session id.
ResponseArrivesFor(id) ==
    \/ \E i \in 1..Len(calls.evals) :
          /\ calls.evals[i].cand.id = id
          /\ calls'.evals = RemoveAt(calls.evals, i)
    \/ \E i \in 1..Len(calls.fins) :
          /\ calls.fins[i].cand.id = id
          /\ calls'.fins = RemoveAt(calls.fins, i)

\* C37: after resetInterview on a session, the response to a request issued
\* before the reset does not modify the session. An evaluation or a summary
\* is only ever requested for a session in progress, so one that returns
\* while the session is as the reset left it was issued before the reset:
\* the session stays not started, without questions, answers and score.
C37_LateResponseAfterReset ==
    [][\A id \in Sessions :
          (InterviewFieldsCleared(candidates[id]) /\ ResponseArrivesFor(id))
              => candidates'[id] = candidates[id]]_vars

\* C38: between the steps, the isPaused of the component, which the countdown
\* and the controls use, equals the isPaused stored with the selected
\* session, whatever pauses, resumes and submissions came before.
C38_PauseFlagsAgree ==
    (chat.mounted /\ ActiveCandidate(World).id # Null)
        => chat.isPaused = ActiveCandidate(World).isPaused

\* The step is a run of the interval callback: the interval is live, and the
\* step is neither an input of the user nor the return of a request.
CountdownTicks ==
    /\ TickGuard
    /\ hist'.userEvents = hist.userEvents
    /\ calls' = calls
    /\ chat'.timeLeft # chat.timeLeft

\* C39: a tick of the countdown changes only the timeLeft of the interview
\* view: it changes no field of any stored session, so the stored timeLeft
\* keeps the value the last generation, submission, pause, resume, clamping
\* or reset gave it.
C39_TickLeavesStoreAlone ==
    [][CountdownTicks =>
          /\ candidates' = candidates
          /\ currentCandidateId' = currentCandidateId]_vars

\* The countdown of the third question has run for a while: the view shows
\* less than the 60 seconds stored with the session.
C39_Witness ==
    LET ac == ActiveCandidate(World)
    IN /\ chat.mounted /\ chat.timerOn /\ ac.id # Null
       /\ ac.currentQuestionIndex = 2
       /\ ac.timeLeft = 60 /\ chat.timeLeft < 60
====
